---- MODULE Spec2Model ----
(***************************************************************************)
(* A model of aio_georss_client/feed.py: the class GeoRssFeed.  The state   *)
(* is the object's fields plus a record of the last completed method call   *)
(* (its arguments and its outcome).  Every method of the class is one       *)
(* action.                                                                  *)
(*                                                                          *)
(* Python's None is the empty set, a present value v is {v}: an optional    *)
(* field holds a set of at most one element.                                *)
(***************************************************************************)
EXTENDS Integers, Sequences, FiniteSets, TLC

\* ------------------------------------------------------------------ bounds
\* longest list of entries handed to _filter_entries
MaxLen == 2
\* largest distance_to_home of an entry
MaxDist == 2
\* largest radius a client is configured with
MaxRadius == 1
\* latest published timestamp of an entry
MaxTime == 2
\* most raw records in a feed the server delivers
MaxFeedLen == 1

\* ------------------------------------------------------------ Python values
None == {}
Some(x) == {x}
The(o) == CHOOSE x \in o : TRUE
Option(S) == {None} \cup {Some(x) : x \in S}
SeqsUpTo(S, n) == UNION { [1..k -> S] : k \in 0..n }

\* consts.py
UPDATE_OK == "OK"
UPDATE_OK_NO_DATA == "OK_NO_DATA"
UPDATE_ERROR == "ERROR"

\* ------------------------------------------------------------------ entries
\* An entry's category is None or "a"; a configured category filter is any
\* collection of None and "a".
Categories == Option({"a"})
FilterCategoryValues == Option({"a"})

\* What the entry factory produces: the four attributes the core reads.
\* geometry, category and published may be None; distance_to_home is a number
\* on every entry, and means something only when the entry has a geometry.
Entries ==
    [ geometry : BOOLEAN,
      distance_to_home : 0..MaxDist,
      category : Categories,
      published : Option(1..MaxTime) ]

\* The lists _filter_entries is called with.  Its predicates read the
\* geometry, the distance and the category of an entry (lines 149-163) and
\* never its timestamp, so the entries of these lists are undated.
EntryLists == SeqsUpTo({ e \in Entries : e.published = None }, MaxLen)
\* The lists _extract_last_timestamp is called with.  It reads the timestamp
\* of an entry and nothing else (line 180), so the entries of these lists
\* differ in their timestamps only.
DatedLists ==
    SeqsUpTo({ e \in Entries : e.geometry /\ e.distance_to_home = 0 /\ e.category = None },
             MaxLen)

\* The parsed feed: its author and its raw records, in feed order.  A raw
\* record carries what the entry factory makes of it.
Feeds == [ author : Option({"author"}), entries : SeqsUpTo(Entries, MaxFeedLen) ]

\* -------------------------------------------------------------------- state
VARIABLES
    home_coordinates,   \* self._home_coordinates
    url,                \* self._url
    filter_radius,      \* self._filter_radius
    filter_categories,  \* self._filter_categories
    last_timestamp,     \* self._last_timestamp
    call,               \* the method call that completed last, NoCall when the
                        \* caller holds no result
    tasks               \* the update() calls the caller runs as concurrent
                        \* tasks of the event loop

config == << home_coordinates, url, filter_radius, filter_categories >>
vars == << config, last_timestamp, call, tasks >>

\* A completed call: the method, what it was given (the list argument, or how
\* the server answers a request and the feed it serves), and how it ended: the
\* exception it raised ("" when it returned) and what it returned.  For a
\* call that may use the network the record also holds what the server saw
\* and sent (requests, response) and what _fetch made of the response
\* (encoding, text).
Call(op, entries, cond, feed, raised, status, data, ret, timestamp) ==
    [ op |-> op, entries |-> entries, cond |-> cond, feed |-> feed,
      raised |-> raised, status |-> status, data |-> data,
      ret |-> ret, timestamp |-> timestamp,
      requests |-> 0, response |-> None, encoding |-> None, text |-> None ]
NoCall == Call("", <<>>, "", None, "", "", None, None, None)

\* The tasks of a caller that runs two update() calls at once, as
\* asyncio.gather(feed.update(), feed.update()) does.  A task is "idle"
\* before its call is made, "pending" until the event loop runs it, then
\* "done"; it holds how the server would answer its request, how its call
\* ended, the value it assigned to self._last_timestamp (None when it
\* assigned none) and its place in the order the tasks finished in.
TaskNames == { "first", "second" }
Task(pc, cond, feed, raised, status, ret, wrote, place) ==
    [ pc |-> pc, cond |-> cond, feed |-> feed, raised |-> raised,
      status |-> status, ret |-> ret, wrote |-> wrote, place |-> place ]
IdleTask == Task("idle", "", None, "", "", None, None, 0)

\* ------------------------------------------------------------ _filter_entries
\* a variant that tells a configured radius by "is not None"
RadiusConfiguredNotNone(radius) == radius # None
\* "if self._filter_radius:" a number is true unless it is None or 0
RadiusConfigured(radius) == radius # None /\ The(radius) # 0
\* "if self._filter_categories:" a collection is true unless None or empty
CategoriesConfigured(categories) == categories # None /\ The(categories) # {}

HasGeometry(entry) == entry.geometry
\* (variant: the boundary excluded)
WithinRadiusStrict(entry, radius) == entry.distance_to_home < The(radius)
\* entry.distance_to_home <= self._filter_radius
WithinRadius(entry, radius) == entry.distance_to_home <= The(radius)
\* (variant: an entry without category passes)
InCategoriesOrNone(entry, categories) ==
    entry.category = None \/ Cardinality({entry.category} \cap The(categories)) > 0
\* len({entry.category}.intersection(self._filter_categories)) > 0
InCategories(entry, categories) ==
    Cardinality({entry.category} \cap The(categories)) > 0

\* a variant that stops at the first entry beyond the radius
RadiusStageUntilBeyond(entries, radius) ==
    IF RadiusConfigured(radius)
    THEN LET beyond == { i \in 1..Len(entries) : ~WithinRadius(entries[i], radius) }
         IN  IF beyond = {} THEN entries
             ELSE SubSeq(entries, 1, (CHOOSE i \in beyond : \A h \in beyond : i <= h) - 1)
    ELSE entries
GeometryStage(entries) == SelectSeq(entries, HasGeometry)
RadiusStage(entries, radius) ==
    IF RadiusConfigured(radius)
    THEN LET Keep(entry) == WithinRadius(entry, radius)
         IN  SelectSeq(entries, Keep)
    ELSE entries
CategoryStage(entries, categories) ==
    IF CategoriesConfigured(categories)
    THEN LET Keep(entry) == InCategories(entry, categories)
         IN  SelectSeq(entries, Keep)
    ELSE entries

\* (variant: entries without geometry are removed only under a radius filter)
FilterEntriesGeometryUnderRadius(entries, radius, categories) ==
    IF RadiusConfigured(radius)
    THEN CategoryStage(RadiusStage(GeometryStage(entries), radius), categories)
    ELSE CategoryStage(entries, categories)

FilterEntries(entries, radius, categories) ==
    CategoryStage(RadiusStage(GeometryStage(entries), radius), categories)

\* ------------------------------------------------------ _extract_last_timestamp
\* [entry.published for entry in feed_entries if entry.published]
PublishedOf(feed_entries) ==
    LET Dated(entry) == entry.published # None
        dated == SelectSeq(feed_entries, Dated)
    IN  [ i \in 1..Len(dated) |-> The(dated[i].published) ]

\* the list without its element at position i
RemoveAt(s, i) == SubSeq(s, 1, i - 1) \o SubSeq(s, i + 1, Len(s))

\* sorted(dates, reverse=True)
RECURSIVE SortedReverse(_)
SortedReverse(dates) ==
    IF dates = <<>> THEN <<>>
    ELSE LET i == CHOOSE j \in 1..Len(dates) :
                      \A k \in 1..Len(dates) : dates[k] <= dates[j]
         IN  <<dates[i]>> \o SortedReverse(RemoveAt(dates, i))

ExtractLastTimestamp(feed_entries) ==
    IF feed_entries # <<>>
    THEN LET dates == SortedReverse(PublishedOf(feed_entries))
         IN  IF dates # <<>> THEN Some(dates[1]) ELSE None
    ELSE None

\* ------------------------------------------------------------ _extract_from_feed
\* global_data, a dict with the attribution as its only key: None stands for
\* the empty dict, the author for the dict that holds it
ExtractFromFeed(feed) == feed.author

\* ------------------------------------------------------------------- _fetch
\* How the server answers the request:
\*   "feed"             a success status and a well-formed payload
\*   "malformed"        a success status and a payload the parser rejects
\*   "http_error"       a status raise_for_status() rejects
\*   "connection_error" the request fails in the transport
\*   "timeout"          the timeout expires before the response arrives
\*   "read_timeout"     the timeout expires while the body is read
\*   "not_modified"     status 304 and no body: raise_for_status() rejects
\*                      statuses from 400 on only, so the empty text is parsed
\*   "empty"            a success status and a payload with no feed in it
Conditions ==
    { "feed", "malformed", "http_error", "connection_error", "timeout",
      "read_timeout", "not_modified", "empty" }

\* the feed the parser makes of what a server serves under a condition: one
\* only when the payload is well-formed, None when there is no feed in it
ServedFeeds(cond) == IF cond = "feed" THEN { Some(f) : f \in Feeds } ELSE { None }

\* self._websession.request(...) at line 83 is the one place that sends a
\* request; it is in no loop, so a run of _fetch sends this many
RequestsPerFetch == 1

\* The body of a response, as bytes: the document (a character outside ASCII,
\* encoded in UTF-8), with or without the UTF-8 byte order mark in front.
\* A 304 has no body.
BOM_UTF8 == "EF BB BF"
Document == "C3 A9"
Contents(cond) ==
    IF cond = "not_modified" THEN { << >> }
    ELSE { << Document >>, << BOM_UTF8, Document >> }
\* the encoding the response declares
DeclaredEncodings == { "utf-8", "iso-8859-1" }
\* the response the server sends, None when the request fails before one
\* arrives
Responses(cond) ==
    IF cond \in { "connection_error", "timeout" } THEN { None }
    ELSE { Some(r) : r \in [ content : Contents(cond), encoding : DeclaredEncodings ] }

\* response.content.startswith(codecs.BOM_UTF8)
StartsWithBom(content) == Len(content) > 0 /\ Head(content) = BOM_UTF8
\* a variant that leaves the declared encoding alone
PreProcessResponseKeepsDeclared(response) == response
\* _pre_process_response(response): a response that begins with the byte
\* order mark is read as 'utf-8-sig', any other keeps its encoding
PreProcessResponse(response) ==
    IF StartsWithBom(response.content)
    THEN [ response EXCEPT !.encoding = "utf-8-sig" ]
    ELSE response

\* What one unit of the body decodes to under an encoding: UTF-8 reads the
\* document as its character and the mark as U+FEFF, ISO-8859-1 reads every
\* byte as a character of its own.
DecodeUnit(unit, encoding) ==
    IF encoding = "iso-8859-1"
    THEN IF unit = BOM_UTF8 THEN "U+00EF U+00BB U+00BF" ELSE "U+00C3 U+00A9"
    ELSE IF unit = BOM_UTF8 THEN "U+FEFF" ELSE "U+00E9"
\* bytes.decode(encoding): 'utf-8-sig' is UTF-8 that skips a leading mark
Decode(content, encoding) ==
    LET body == IF encoding = "utf-8-sig" /\ StartsWithBom(content)
                THEN Tail(content) ELSE content
    IN  [ i \in 1..Len(body) |-> DecodeUnit(body[i], encoding) ]
\* response.text(): the body decoded with the encoding of the response
ResponseText(response) == Decode(response.content, response.encoding)

\* aiohttp.client_exceptions.ClientError and its subclasses
ClientErrors == { "ClientConnectionError", "ClientResponseError" }

\* self._websession.request(...): what entering the "async with" raises
RaisedByRequest(cond) ==
    CASE cond = "connection_error" -> "ClientConnectionError"
      [] cond = "timeout" -> "TimeoutError"
      [] OTHER -> ""

\* response.raise_for_status()
RaiseForStatus(cond) == IF cond = "http_error" THEN "ClientResponseError" ELSE ""
\* await response.text()
ReadText(cond) == IF cond = "read_timeout" THEN "TimeoutError" ELSE ""
\* XmlParser.parse(text): the parser rejects a malformed payload with an
\* exception of its own, which is none of aiohttp's
Parse(cond) == IF cond = "malformed" THEN "ParseError" ELSE ""

\* what the body of the inner try raises: the first of its statements to fail
RaisedByResponse(cond) ==
    IF RaiseForStatus(cond) # "" THEN RaiseForStatus(cond)
    ELSE IF ReadText(cond) # "" THEN ReadText(cond)
    ELSE Parse(cond)

\* line 89 runs when the request and raise_for_status() succeeded: the
\* encoding of the response after _pre_process_response, None when line 89
\* is not reached
EncodingAfterPreProcess(cond, response) ==
    IF RaisedByRequest(cond) = "" /\ RaiseForStatus(cond) = ""
    THEN Some(PreProcessResponse(The(response)).encoding)
    ELSE None
\* the text handed to XmlParser.parse at line 92, None when the parser is
\* not reached
ParsedText(cond, response) ==
    IF RaisedByRequest(cond) = "" /\ RaiseForStatus(cond) = "" /\ ReadText(cond) = ""
    THEN Some(ResponseText(PreProcessResponse(The(response))))
    ELSE None

\* "except client_exceptions.ClientError" of the inner try
InnerHandles(exc) == exc \in ClientErrors
\* "except client_exceptions.ClientError", "except asyncio.TimeoutError" of
\* the outer try
OuterHandles(exc) == exc \in ClientErrors \cup { "TimeoutError" }

Returned(status, data) == [ raised |-> "", status |-> status, data |-> data ]
Raised(exc) == [ raised |-> exc, status |-> "", data |-> None ]

\* the outcome of awaiting self._fetch()
Fetch(cond, feed) ==
    LET before == RaisedByRequest(cond)
        within == RaisedByResponse(cond)
    IN  IF before # ""
        THEN IF OuterHandles(before) THEN Returned(UPDATE_ERROR, None)
             ELSE Raised(before)
        ELSE IF within = "" THEN Returned(UPDATE_OK, feed)
        ELSE IF InnerHandles(within) THEN Returned(UPDATE_ERROR, None)
        ELSE IF OuterHandles(within) THEN Returned(UPDATE_ERROR, None)
        ELSE Raised(within)

\* ------------------------------------------------------------------- update
\* The abstract entry factory: the entry a raw record stands for.
NewEntry(home, rss_entry, global_data) == rss_entry

\* "status, data = self._fetch()": _fetch is an "async def" and the call is
\* not awaited, so its value is the coroutine object.  The body of _fetch
\* does not run: no request is sent, whatever the server would answer.
FetchCallValue(cond, feed) == [ kind |-> "coroutine", requests |-> 0 ]

\* The outcome of update() and the value it leaves in self._last_timestamp,
\* given the value of the call self._fetch().  Only a pair unpacks into
\* "status, data"; unpacking a coroutine object raises TypeError.
Update(value, home, radius, categories, last) ==
    IF value.kind # "tuple"
    THEN [ raised |-> "TypeError", status |-> "", ret |-> None,
           last_timestamp |-> last ]
    ELSE IF value.status = UPDATE_OK
    THEN IF value.data # None
         THEN LET data == The(value.data)
                  global_data == ExtractFromFeed(data)
                  entries == [ i \in 1..Len(data.entries) |->
                                 NewEntry(home, data.entries[i], global_data) ]
                  filtered_entries == FilterEntries(entries, radius, categories)
              IN  [ raised |-> "", status |-> UPDATE_OK,
                    ret |-> Some(filtered_entries),
                    last_timestamp |-> ExtractLastTimestamp(filtered_entries) ]
         ELSE [ raised |-> "", status |-> UPDATE_OK, ret |-> None,
                last_timestamp |-> last ]
    ELSE IF value.status = UPDATE_OK_NO_DATA
    THEN [ raised |-> "", status |-> UPDATE_OK_NO_DATA, ret |-> None,
           last_timestamp |-> last ]
    ELSE [ raised |-> "", status |-> UPDATE_ERROR, ret |-> None,
           last_timestamp |-> last ]

\* ---------------------------------------------------------------- actions
\* __init__: the configuration is the caller's, last_timestamp is None
Init ==
    /\ home_coordinates = << 0, 0 >>
    /\ url = "url"
    /\ filter_radius \in Option(0..MaxRadius)
    /\ filter_categories \in Option(SUBSET FilterCategoryValues)
    /\ last_timestamp = None
    /\ call = NoCall
    /\ tasks = [ t \in TaskNames |-> IdleTask ]

\* a variant of _fetch that keeps the address the response came from
CallFetchKeepsFinalUrl ==
    /\ call = NoCall
    /\ \E cond \in Conditions : \E feed \in ServedFeeds(cond) :
        LET outcome == Fetch(cond, feed)
        IN  call' = Call("_fetch", <<>>, cond, feed, outcome.raised,
                         outcome.status, outcome.data, None, None)
    /\ url' = "final url"
    /\ UNCHANGED << home_coordinates, filter_radius, filter_categories,
                    last_timestamp, tasks >>

\* a variant of update() that takes the timestamp from the served feed as
\* it is, before the call of _fetch is unpacked
CallUpdateStampsUnfiltered ==
    /\ call = NoCall
    /\ \E cond \in Conditions : \E feed \in ServedFeeds(cond) :
        /\ call' = Call("update", <<>>, cond, feed, "TypeError", "", None,
                        None, None)
        /\ last_timestamp' = IF feed = None THEN last_timestamp
                             ELSE ExtractLastTimestamp(The(feed).entries)
    /\ UNCHANGED << config, tasks >>

\* await self.update(), against a server that would answer with cond and feed
CallUpdate ==
    /\ call = NoCall
    /\ \E cond \in Conditions : \E feed \in ServedFeeds(cond) :
        LET value == FetchCallValue(cond, feed)
            outcome == Update(value, home_coordinates, filter_radius,
                              filter_categories, last_timestamp)
        IN  /\ call' = [ Call("update", <<>>, cond, feed, outcome.raised,
                              outcome.status, None, outcome.ret, None)
                          EXCEPT !.requests = value.requests ]
            /\ last_timestamp' = outcome.last_timestamp
    /\ UNCHANGED << config, tasks >>

\* await self._fetch(), against a server that answers with cond and feed
CallFetch ==
    /\ call = NoCall
    /\ \E cond \in Conditions : \E feed \in ServedFeeds(cond) :
        \E response \in Responses(cond) :
        LET outcome == Fetch(cond, feed)
        IN  call' = [ Call("_fetch", <<>>, cond, feed, outcome.raised,
                           outcome.status, outcome.data, None, None)
                      EXCEPT !.requests = RequestsPerFetch,
                             !.response = response,
                             !.encoding = EncodingAfterPreProcess(cond, response),
                             !.text = ParsedText(cond, response) ]
    /\ UNCHANGED << config, last_timestamp, tasks >>

\* self._filter_entries(entries)
CallFilterEntries ==
    /\ call = NoCall
    /\ \E entries \in EntryLists :
        call' = Call("_filter_entries", entries, "", None, "", "", None,
                     Some(FilterEntries(entries, filter_radius, filter_categories)),
                     None)
    /\ UNCHANGED << config, last_timestamp, tasks >>

\* self._extract_last_timestamp(feed_entries)
CallExtractLastTimestamp ==
    /\ call = NoCall
    /\ \E feed_entries \in DatedLists :
        call' = Call("_extract_last_timestamp", feed_entries, "", None, "", "",
                     None, None, ExtractLastTimestamp(feed_entries))
    /\ UNCHANGED << config, last_timestamp, tasks >>

\* The caller makes the update() call of task t: a coroutine the event loop
\* has yet to run.
CreateTask(t) ==
    /\ tasks[t].pc = "idle"
    /\ \E cond \in Conditions : \E feed \in ServedFeeds(cond) :
        tasks' = [ tasks EXCEPT ![t] = Task("pending", cond, feed, "", "", None, None, 0) ]
    /\ UNCHANGED << config, last_timestamp, call >>

\* The event loop runs task t once both calls are made.  update() awaits
\* nothing (line 55 does not await _fetch), so the loop runs its body from
\* the first statement to the last without giving the other task a turn.
\* Lines 65-66 assign self._last_timestamp on the path that returns entries.
RunTask(t) ==
    /\ tasks[t].pc = "pending"
    /\ \A u \in TaskNames : tasks[u].pc # "idle"
    /\ LET mine == tasks[t]
           outcome == Update(FetchCallValue(mine.cond, mine.feed), home_coordinates,
                             filter_radius, filter_categories, last_timestamp)
           wrote == IF outcome.raised = "" /\ outcome.ret # None
                    THEN Some(outcome.last_timestamp) ELSE None
           place == Cardinality({ u \in TaskNames : tasks[u].pc = "done" }) + 1
       IN  /\ tasks' = [ tasks EXCEPT ![t] =
                           Task("done", mine.cond, mine.feed, outcome.raised,
                                outcome.status, outcome.ret, wrote, place) ]
           /\ last_timestamp' = outcome.last_timestamp
    /\ UNCHANGED << config, call >>

\* The caller is done with the result of the last call.
Discard ==
    /\ call # NoCall
    /\ call' = NoCall
    /\ UNCHANGED << config, last_timestamp, tasks >>

Next ==
    \/ CallFetch
    \/ CallUpdate
    \/ CallFilterEntries
    \/ CallExtractLastTimestamp
    \/ Discard

Spec == Init /\ [][Next]_vars

\* two update() calls on one client, run as concurrent tasks
NextOverlap == \E t \in TaskNames : CreateTask(t) \/ RunTask(t)
SpecOverlap == Init /\ [][NextOverlap]_vars

\* ------------------------------------------------------------------ claims
\* the elements of a list
Range(s) == { s[i] : i \in 1..Len(s) }
\* a call that handed a list of entries back to its caller
ReturnedEntries == call.op \in { "update", "_filter_entries" } /\ call.ret # None
FilterCalled == call.op = "_filter_entries" /\ call.raised = ""

\* C1: whatever the radius and category filters, a list of entries handed
\* back by update() or by _filter_entries holds no entry without geometry.
C1_NoEntryWithoutGeometry ==
    ReturnedEntries => \A e \in Range(The(call.ret)) : e.geometry

\* C1 witness: _filter_entries was given an entry without geometry and
\* returned a non-empty list.
C1_Witness ==
    /\ FilterCalled
    /\ \E e \in Range(call.entries) : ~e.geometry
    /\ The(call.ret) # <<>>

\* C2: with a radius r configured (present and not 0), every entry handed
\* back is at distance <= r, and an entry with geometry at distance exactly r
\* that the category filter lets through is handed back.
C2_WithinRadiusInclusive ==
    (ReturnedEntries /\ filter_radius # None /\ The(filter_radius) # 0) =>
        /\ \A e \in Range(The(call.ret)) :
              e.distance_to_home <= The(filter_radius)
        /\ call.op = "_filter_entries" =>
              \A e \in Range(call.entries) :
                  ( /\ e.geometry
                    /\ e.distance_to_home = The(filter_radius)
                    /\ (filter_categories \in { None, Some({}) }
                           \/ e.category \in The(filter_categories)) )
                  => e \in Range(The(call.ret))

\* C2 witness: under a radius r, _filter_entries was given an entry at
\* distance r and one beyond r, kept the first and dropped the second.
C2_Witness ==
    /\ FilterCalled
    /\ filter_radius # None /\ The(filter_radius) # 0
    /\ \E e, f \in Range(call.entries) :
          /\ e.geometry /\ e.distance_to_home = The(filter_radius)
          /\ f.geometry /\ f.distance_to_home > The(filter_radius)
          /\ e \in Range(The(call.ret))
          /\ f \notin Range(The(call.ret))

\* C3: with a category filter C configured (present and not empty), every
\* entry handed back has a category that is a member of C; an entry without
\* category is handed back only if None is a member of C.
C3_CategoryInFilter ==
    (ReturnedEntries /\ filter_categories # None /\ The(filter_categories) # {}) =>
        \A e \in Range(The(call.ret)) : e.category \in The(filter_categories)

\* C3 witness: under a category filter that does not hold None,
\* _filter_entries was given an entry with geometry and no category, which
\* the radius filter lets through, dropped it and kept another.
C3_Witness ==
    /\ FilterCalled
    /\ filter_categories # None /\ The(filter_categories) # {}
    /\ None \notin The(filter_categories)
    /\ \E e \in Range(call.entries) :
          /\ e.geometry /\ e.category = None
          /\ (filter_radius = None
                 \/ e.distance_to_home <= The(filter_radius))
          /\ e \notin Range(The(call.ret))
    /\ The(call.ret) # <<>>

\* the answers of the server that are failures of the transport: a refused
\* connection, an expired timeout, a status outside the success range
TransportFailures == { "connection_error", "timeout", "read_timeout", "http_error" }
UpdateCalled == call.op = "update"

\* C4: an update() whose request fails in the transport completes by
\* returning (ERROR, None): no entries, and no exception escapes.
C4_TransportFailureReturnsError ==
    (UpdateCalled /\ call.cond \in TransportFailures) =>
        (call.raised = "" /\ call.status = UPDATE_ERROR /\ call.ret = None)

\* C5: when the request succeeds and the parser fails on the payload, _fetch
\* reports (ERROR, None) and update() returns (ERROR, None); the parser's
\* failure does not propagate.
C5_ParserFailureReturnsError ==
    (call.op \in { "_fetch", "update" } /\ call.cond = "malformed") =>
        /\ call.raised = ""
        /\ call.status = UPDATE_ERROR
        /\ call.data = None /\ call.ret = None

Survives(e) ==
    /\ e.geometry
    /\ (filter_radius # None /\ The(filter_radius) # 0)
          => e.distance_to_home <= The(filter_radius)
    /\ (filter_categories # None /\ The(filter_categories) # {})
          => e.category \in The(filter_categories)
\* the entries of the served feed that survive, in feed order
Survivors(feed) == SelectSeq(The(feed).entries, Survives)
\* the published timestamps of the survivors
SurvivorDates(feed) ==
    { The(e.published) : e \in { x \in Range(Survivors(feed)) : x.published # None } }
Maximum(S) == CHOOSE m \in S : \A x \in S : x <= m

\* _filter_entries returns the entries of its argument that survive, in the
\* order of the argument.
FilterReturnsSurvivors ==
    FilterCalled => The(call.ret) = SelectSeq(call.entries, Survives)

\* _extract_last_timestamp returns the latest published timestamp of its
\* argument, None when no entry of it has one.
ExtractReturnsNewest ==
    call.op = "_extract_last_timestamp" =>
        LET dates == { The(e.published) :
                          e \in { x \in Range(call.entries) : x.published # None } }
        IN  call.timestamp = IF dates = {} THEN None ELSE Some(Maximum(dates))

\* awaited, _fetch returns (ERROR, None) on every failure of the transport
FetchMapsTransportFailures ==
    (call.op = "_fetch" /\ call.cond \in TransportFailures) =>
        (call.raised = "" /\ call.status = UPDATE_ERROR /\ call.data = None)

C10_ReturnsSurvivorsInFeedOrder ==
    (UpdateCalled /\ call.cond = "feed") =>
        /\ call.raised = ""
        /\ call.status = UPDATE_OK
        /\ call.ret = Some(Survivors(call.feed))
\* ------------------------------------------------------- not modified (C11)
\* C11: when the server answers that the feed is not modified, update()
\* returns the pair (UPDATE_OK_NO_DATA, None) and last_timestamp keeps the
\* value it had before the call.
C11_NotModifiedReturnsNoData ==
    [][ (call'.op = "update" /\ call'.cond = "not_modified") =>
            /\ call'.raised = ""
            /\ call'.status = UPDATE_OK_NO_DATA
            /\ call'.ret = None
            /\ last_timestamp' = last_timestamp ]_vars

\* _fetch itself has no path that answers UPDATE_OK_NO_DATA: whatever the
\* server does, it returns UPDATE_OK or UPDATE_ERROR, or raises.
FetchNeverReportsNoData ==
    call.op = "_fetch" => call.status # UPDATE_OK_NO_DATA

\* ------------------------------------------------------- absent feed (C14)
\* C14: when the fetch reports UPDATE_OK and the parsed feed is absent,
\* update() returns the pair (UPDATE_OK, None) and last_timestamp keeps the
\* value it had before the call.
C14_AbsentFeedReturnsOkNone ==
    [][ (call'.op = "update" /\ Fetch(call'.cond, call'.feed) = Returned(UPDATE_OK, None)) =>
            /\ call'.raised = ""
            /\ call'.status = UPDATE_OK
            /\ call'.ret = None
            /\ last_timestamp' = last_timestamp ]_vars

\* ------------------------------------------------------- one request (C15)
\* C15: every update() call sends exactly one HTTP request, whatever the
\* server answers; a transport failure is not retried.
C15_UpdateSendsOneRequest ==
    UpdateCalled => call.requests = 1

\* A run of _fetch sends one request on every path, the failing ones too.
FetchSendsOneRequest ==
    call.op = "_fetch" => call.requests = 1

Stage(name, entries) ==
    CASE name = "geometry" -> GeometryStage(entries)
      [] name = "radius" -> RadiusStage(entries, filter_radius)
      [] name = "category" -> CategoryStage(entries, filter_categories)
StageOrders ==
    { << "geometry", "radius", "category" >>, << "geometry", "category", "radius" >>,
      << "radius", "geometry", "category" >>, << "radius", "category", "geometry" >>,
      << "category", "geometry", "radius" >>, << "category", "radius", "geometry" >> }
InOrder(order, entries) ==
    Stage(order[3], Stage(order[2], Stage(order[1], entries)))

\* C13: whatever the list and the configuration, the stages of
\* _filter_entries applied in any of their six orders give the list that
\* _filter_entries returns.
C13_StagesCommute ==
    FilterCalled =>
        \A order \in StageOrders : InOrder(order, call.entries) = The(call.ret)

\* Both filters are configured; the first entry is within the radius and of
\* a wanted category and is dropped for its geometry alone, the second is
\* returned.
C13_Witness ==
    /\ FilterCalled
    /\ RadiusConfigured(filter_radius) /\ CategoriesConfigured(filter_categories)
    /\ Len(call.entries) = 2
    /\ LET e == call.entries[1]
       IN  /\ ~e.geometry
           /\ e.distance_to_home <= The(filter_radius)
           /\ e.category \in The(filter_categories)
    /\ The(call.ret) = << call.entries[2] >>

\* ------------------------------------------------------ falsy filters (C18)
\* C18: a radius of 0 and an empty collection of categories count as not
\* configured.  Under radius 0 an entry with a geometry passes at any
\* distance, under an empty collection no entry is dropped for its category;
\* under both, the entries returned are those with a geometry.
C18_FalsyFilterNotApplied ==
    FilterCalled =>
        LET returned == Range(The(call.ret))
            near(e) == \/ filter_radius = None
                       \/ e.distance_to_home <= The(filter_radius)
            wanted(e) == \/ filter_categories = None
                         \/ e.category \in The(filter_categories)
        IN  /\ filter_radius = Some(0) =>
                \A e \in Range(call.entries) :
                    (e.geometry /\ (wanted(e) \/ filter_categories = Some({})))
                        => e \in returned
            /\ filter_categories = Some({}) =>
                \A e \in Range(call.entries) :
                    (e.geometry /\ (near(e) \/ filter_radius = Some(0)))
                        => e \in returned
            /\ (filter_radius = Some(0) /\ filter_categories = Some({})) =>
                The(call.ret) = SelectSeq(call.entries, LAMBDA e : e.geometry)

\* Under radius 0 and an empty collection of categories, an entry away from
\* home with a category is returned and one without geometry is dropped.
C18_Witness ==
    /\ FilterCalled
    /\ filter_radius = Some(0) /\ filter_categories = Some({})
    /\ \E e \in Range(The(call.ret)) :
          e.distance_to_home > 0 /\ e.category # None
    /\ \E e \in Range(call.entries) : ~e.geometry

\* ------------------------------------------------------ configuration (C16)
\* C16: no call changes the configuration of the client: the home
\* coordinates, the URL, the radius and the categories are after every
\* sequence of calls what they were at construction.
C16_ConfigurationNeverChanges ==
    [][ config' = config ]_vars

\* update() has been called on a client constructed with both filters.
C16_Witness ==
    /\ UpdateCalled
    /\ filter_radius # None /\ filter_categories # None
    /\ home_coordinates = << 0, 0 >> /\ url = "url"

\* ------------------------------------------------- timestamp provenance (C19)
\* C19: last_timestamp is None at construction, and whenever it changes it
\* becomes None or the published timestamp of an entry that survived the
\* filters in the update() call that changes it, a call that returns
\* UPDATE_OK.  So it is always None or the timestamp of a survivor, and None
\* until the first update() that returns UPDATE_OK with a dated survivor.
C19_TimestampIsNullOrSurvivors ==
    /\ last_timestamp = None
    /\ [][ last_timestamp' # last_timestamp =>
              \/ last_timestamp' = None
              \/ /\ call'.op = "update" /\ call'.status = UPDATE_OK
                 /\ call'.feed # None
                 /\ last_timestamp' \in { Some(d) : d \in SurvivorDates(call'.feed) } ]_vars

\* update() has been called against a feed with a dated survivor without
\* returning UPDATE_OK, and last_timestamp is None still.
C19_Witness ==
    /\ UpdateCalled /\ call.cond = "feed"
    /\ SurvivorDates(call.feed) # {}
    /\ call.status # UPDATE_OK
    /\ last_timestamp = None

\* --------------------------------------------------- overlapping calls (C12)
AllDone == \A t \in TaskNames : tasks[t].pc = "done"
\* the tasks that assigned last_timestamp
Writers == { t \in TaskNames : tasks[t].wrote # None }

NoTaskWrites ==
    \A t \in TaskNames :
        tasks[t].pc = "done" => (tasks[t].wrote = None /\ tasks[t].raised = "TypeError")

====
